---- MODULE Spec2Model ----
(***************************************************************************)
(* Model of summarize_model.py: the upload handler and the media-to-report *)
(* pipeline extract_audio -> speech_to_text -> generate_detailed_info ->   *)
(* generate_pdf.  Python values are modelled by what the code does with    *)
(* them: text is a TLA+ string, a function call ends in an outcome         *)
(* (a returned value or a raised exception).                               *)
(***************************************************************************)
EXTENDS Integers, Sequences, FiniteSets, TLC

(* ------------------------------ bounds -------------------------------- *)

\* Exit statuses of the transcoder process are 0..MaxExitStatus.
MaxExitStatus == 1

\* A transcript given to the Summarizer is a concatenation of at most
\* MaxPieces pieces of text.
MaxPieces == 3

\* The requests the hosting server handles concurrently.
Invocations == {1, 2}

(* --------------------------- Python values ---------------------------- *)

Return(v) == [kind |-> "return", value |-> v]

Raise(e) == [kind |-> "raise", exc |-> e]

\* An exception object: its class and the text str(e) gives.
Exc(type, msg) == [type |-> type, msg |-> msg]

\* str(e)
str(e) == e.msg

PyStr(s) == [pytype |-> "str", v |-> s]

PyNone == [pytype |-> "NoneType", v |-> ""]

PyInt == [pytype |-> "int", v |-> "7"]

PyBytes(s) == [pytype |-> "bytes", v |-> s]

(* ------------------------------ strings ------------------------------- *)

Char(s, i) == SubSeq(s, i, i)

UpperLetters == "ABCDEFGHIJKLMNOPQRSTUVWXYZ"

LowerLetters == "abcdefghijklmnopqrstuvwxyz"

\* The lower-case letter of each upper-case letter.
LowerTable ==
    [c \in {Char(UpperLetters, k) : k \in 1..Len(UpperLetters)} |->
        Char(LowerLetters, CHOOSE k \in 1..Len(UpperLetters) : Char(UpperLetters, k) = c)]

\* str.lower() on one character.
LowerChar(c) == IF c \in DOMAIN LowerTable THEN LowerTable[c] ELSE c

RECURSIVE LowerRange(_, _, _)
\* The characters lo..hi of s, each lowered; the range is halved so that
\* the evaluation stays shallow on long texts.
LowerRange(s, lo, hi) ==
    IF lo > hi THEN ""
    ELSE IF lo = hi THEN LowerChar(Char(s, lo))
    ELSE LET mid == (lo + hi) \div 2
         IN  LowerRange(s, lo, mid) \o LowerRange(s, mid + 1, hi)

\* A variant of str.lower() that leaves the text as it is.
LowerIdentity(s) == s

\* str.lower()
Lower(s) == LowerRange(s, 1, Len(s))

\* Python's `key in text` on two strings.
Contains(key, text) ==
    \E i \in 1..(Len(text) - Len(key) + 1) : SubSeq(text, i, i + Len(key) - 1) = key

RECURSIVE Join(_, _)
\* sep.join(parts)
Join(sep, parts) ==
    IF parts = <<>> THEN ""
    ELSE IF Len(parts) = 1 THEN parts[1]
    ELSE parts[1] \o sep \o Join(sep, Tail(parts))

\* The position of the last "/" of p, 0 when there is none.
LastSlash(p) ==
    LET slashes == {i \in 1..Len(p) : Char(p, i) = "/"}
    IN  IF slashes = {} THEN 0
        ELSE CHOOSE i \in slashes : \A j \in slashes : j <= i

\* os.path.basename(p)
basename(p) == SubSeq(p, LastSlash(p) + 1, Len(p))

(* --------------------- extract_audio (AudioExtractor) ------------------ *)

\* The output path handed to the transcoder.
wav_path(video_path) == "processed/" \o basename(video_path) \o ".wav"

\* A variant that treats a non-zero exit status as an error, as
\* subprocess.check_call would.
extract_audio_checked(video_path, call) ==
    IF call.kind = "raise" THEN Raise(call.exc)
    ELSE IF call.value # 0
         THEN Raise(Exc("CalledProcessError", "Command 'ffmpeg' returned non-zero exit status"))
         ELSE Return(wav_path(video_path))

\* extract_audio(video_path), given how subprocess.call ended: Return(status)
\* when the process was launched, Raise(e) when the launch failed.
extract_audio(video_path, call) ==
    IF call.kind = "raise" THEN Raise(call.exc) ELSE Return(wav_path(video_path))

(* ---------------------- speech_to_text (Transcriber) ------------------- *)

\* A variant whose handler for RequestError drops the error text.
speech_to_text_no_detail(audio_path, recognition) ==
    IF recognition.kind = "return" THEN Return(recognition.value)
    ELSE IF recognition.exc.type = "UnknownValueError"
         THEN Return("Speech Recognition could not understand audio.")
    ELSE IF recognition.exc.type = "RequestError"
         THEN Return("Could not request results from Speech Recognition service; ")
    ELSE Raise(recognition.exc)

\* speech_to_text(audio_path), given how the body of its try block ended:
\* Return(text) from recognize_google, or Raise(e).
speech_to_text(audio_path, recognition) ==
    IF recognition.kind = "return" THEN Return(recognition.value)
    ELSE IF recognition.exc.type = "UnknownValueError"
         THEN Return("Speech Recognition could not understand audio.")
    ELSE IF recognition.exc.type = "RequestError"
         THEN Return("Could not request results from Speech Recognition service; "
                     \o str(recognition.exc))
    ELSE Raise(recognition.exc)

(* ------------------- generate_detailed_info (Summarizer) --------------- *)

\* The keyword table, in the dict's enumeration order.
explanations == <<
    [key |-> "conflict",
     text |-> "This video discusses ongoing tensions related to regional conflicts, which have drawn international attention."],
    [key |-> "environment",
     text |-> "The environmental impacts mentioned in the transcript highlight critical issues facing our planet today."],
    [key |-> "economy",
     text |-> "Economic discussions often relate to market fluctuations and their broader implications for global trade."] >>

RECURSIVE relevant_from(_, _)
\* The loop over the keyword table from entry k on; lowered is
\* transcript.lower(), which every iteration evaluates to the same text.
relevant_from(lowered, k) ==
    IF k > Len(explanations) THEN <<>>
    ELSE (IF Contains(explanations[k].key, lowered)
          THEN <<explanations[k].text>> ELSE <<>>) \o relevant_from(lowered, k + 1)

relevant_explanations(text) == relevant_from(Lower(text), 1)

\* A variant that trims the separator when nothing matched.
summary_trimmed(relevant) ==
    "In summary, this video provides insights on the following key themes: "
    \o Join(" ", relevant) \o (IF relevant = <<>> THEN "" ELSE " ")
    \o "This highlights the importance of these issues and encourages further discussion."

summary_of(relevant) ==
    "In summary, this video provides insights on the following key themes: "
    \o Join(" ", relevant) \o " "
    \o "This highlights the importance of these issues and encourages further discussion."

\* The body of the try block of generate_detailed_info.
detailed_info_body(transcript) ==
    IF transcript.pytype = "str"
    THEN Return([description |-> transcript.v \o ".",
                 summary |-> summary_of(relevant_explanations(transcript.v))])
    ELSE IF transcript.pytype = "bytes"
    THEN Raise(Exc("TypeError", "a bytes-like object is required, not 'str'"))
    ELSE Raise(Exc("AttributeError",
                   "'" \o transcript.pytype \o "' object has no attribute 'lower'"))

\* A variant without the except clause.
generate_detailed_info_uncaught(transcript) == detailed_info_body(transcript)

generate_detailed_info(transcript) ==
    LET body == detailed_info_body(transcript)
    IN  IF body.kind = "raise"
        THEN Return([description |-> "Error generating detailed information.",
                     summary |-> str(body.exc)])
        ELSE body

(* ------------------------ process_video (Pipeline) --------------------- *)

\* A variant without the except clause.
process_video_uncaught(body) == body

\* A variant whose handler reports a fixed text instead of the error's.
process_video_fixed_text(body) ==
    IF body.kind = "raise"
    THEN Return([description |-> "Error processing video.",
                 summary |-> "Error processing video."])
    ELSE body

\* process_video, given how the body of its try block ended: Return(detailed_info)
\* or Raise(e) from one of the stages.
process_video(body) ==
    IF body.kind = "raise"
    THEN Return([description |-> "Error processing video.", summary |-> str(body.exc)])
    ELSE body

(* ----------------------- generate_pdf (ReportRenderer) ----------------- *)

\* dict.get(key, default)
Get(data, key, default) == IF key \in DOMAIN data THEN data[key] ELSE default

\* A variant that names the document differently.
pdf_path_other == "processed/summary.pdf"

pdf_path == "processed/video_summary.pdf"

\* The two body paragraphs generate_pdf lays out.
paragraphs(data) ==
    [description |-> Get(data, "description", ""),
     summary |-> Get(data, "summary", "No summary available.")]

\* generate_pdf(data), given how the body of its try block ended.
generate_pdf(data, build) ==
    IF build.kind = "raise"
    THEN Raise(Exc("HTTPException", "Internal Server Error: " \o str(build.exc)))
    ELSE Return(pdf_path)

(* ------------------------------- state -------------------------------- *)

VARIABLES
    pc,             \* per request: the call of upload_video that is in progress
    file_path,      \* per request: file_location
    audio_path,     \* per request: process_video's audio_path
    transcript,     \* per request: process_video's transcript
    detailed_info,  \* per request: upload_video's detailed_info
    response,       \* per request: what upload_video answered
    body,           \* per request: the file content FileResponse delivered
    trace,          \* per request: the stage calls, returns and raises so far
    call,           \* per request: how subprocess.call ended
    recognition,    \* per request: how the recognition ended
    audio_files,    \* the audio files present in processed/
    document,       \* the file at pdf_path
    s_pc,           \* Summarizer on its own: "ready" or "returned"
    s_transcript,   \* Summarizer on its own: the argument
    s_result        \* Summarizer on its own: how generate_detailed_info ended

vars == <<pc, file_path, audio_path, transcript, detailed_info, response, body,
          trace, call, recognition, audio_files, document, s_pc, s_transcript, s_result>>

pipeline_vars == <<pc, file_path, audio_path, transcript, detailed_info, response,
                   body, trace, call, recognition, audio_files, document>>

summarizer_vars == <<s_pc, s_transcript, s_result>>

\* An entry of trace: a stage is called, returns, or raises the error whose
\* text is msg.
Called(stage) == <<"call", stage, "">>

Returned(stage) == <<"return", stage, "">>

Raised(stage, e) == <<"raise", stage, str(e)>>

Ended(stage, ended) ==
    IF ended.kind = "raise" THEN Raised(stage, ended.exc) ELSE Returned(stage)

NoContent == [description |-> "", summary |-> ""]

NoDocument == [state |-> "absent", by |-> 0, description |-> "", summary |-> ""]

NoResponse == [status |-> 0, origin |-> "", path |-> ""]

(* ---------------------------- environment ----------------------------- *)

\* file.filename of an upload; the name is taken from the request as it is.
Filenames == {"a.mp4", "../a.mp4"}

\* How subprocess.call(['ffmpeg', ...]) can end.
SubprocessCalls ==
    {Raise(Exc("FileNotFoundError", "[Errno 2] No such file or directory: 'ffmpeg'"))}
    \cup {Return(status) : status \in 0..MaxExitStatus}

\* What the recognition service can make of a readable recording.
Speech == {"The local economy is struggling."}

\* How the body of speech_to_text's try block can end.
Recognitions(path) ==
    IF path \in audio_files
    THEN {Return(text) : text \in Speech}
         \cup {Raise(Exc("UnknownValueError", "")),
               Raise(Exc("RequestError", "recognition request failed: Bad Request")),
               Raise(Exc("ValueError", "Audio file could not be read as PCM WAV, AIFF/AIFF-C, or Native FLAC; check if file is corrupted or in another format")),
               Raise(Exc("MemoryError", ""))}
    ELSE {Raise(Exc("FileNotFoundError",
                    "[Errno 2] No such file or directory: '" \o path \o "'"))}

\* How the body of generate_pdf's try block can end.
Builds == {Return(pdf_path), Raise(Exc("OSError", "[Errno 28] No space left on device"))}

Pieces == {"economy", "Economy", "CONFLICT", "environment", " and ", "econ",
           "Speech Recognition could not understand audio."}

RECURSIVE Texts(_)
Texts(n) ==
    IF n = 0 THEN {""}
    ELSE Texts(n - 1) \cup {t \o p : t \in Texts(n - 1), p \in Pieces}

SummarizerInputs ==
    {PyStr(t) : t \in Texts(MaxPieces)} \cup {PyNone, PyInt, PyBytes("economy")}

(* ------------------------------- actions ------------------------------ *)

PipelineInit ==
    /\ pc = [i \in Invocations |-> "idle"]
    /\ file_path = [i \in Invocations |-> ""]
    /\ audio_path = [i \in Invocations |-> ""]
    /\ transcript = [i \in Invocations |-> ""]
    /\ detailed_info = [i \in Invocations |-> NoContent]
    /\ response = [i \in Invocations |-> NoResponse]
    /\ body = [i \in Invocations |-> NoDocument]
    /\ trace = [i \in Invocations |-> <<>>]
    /\ call = [i \in Invocations |-> Return(0)]
    /\ recognition = [i \in Invocations |-> Return("")]
    /\ audio_files = {}
    /\ document = NoDocument

Init ==
    /\ PipelineInit
    /\ s_pc = "idle"
    /\ s_transcript = PyNone
    /\ s_result = Return(NoContent)

\* upload_video after process_video ended as `ended`: on a return generate_pdf is
\* called with the value, on a raise the handler of upload_video answers 500.
AfterProcessVideo(i, ended, events) ==
    IF ended.kind = "return"
    THEN /\ detailed_info' = [detailed_info EXCEPT ![i] = ended.value]
         /\ pc' = [pc EXCEPT ![i] = "generate_pdf"]
         /\ trace' = [trace EXCEPT ![i] = @ \o events \o <<Called("generate_pdf")>>]
         /\ UNCHANGED response
    ELSE /\ response' = [response EXCEPT ![i] =
                            [status |-> 500, origin |-> "process_video", path |-> ""]]
         /\ pc' = [pc EXCEPT ![i] = "done"]
         /\ trace' = [trace EXCEPT ![i] = @ \o events]
         /\ UNCHANGED detailed_info

\* upload_video up to the transcoder: the upload is saved, process_video is
\* entered and extract_audio is called.
UploadVideo(i) ==
    /\ pc[i] = "idle"
    /\ \E filename \in Filenames, saved \in BOOLEAN :
        IF saved
        THEN /\ file_path' = [file_path EXCEPT ![i] = "uploads/" \o filename]
             /\ pc' = [pc EXCEPT ![i] = "extract_audio"]
             /\ trace' = [trace EXCEPT ![i] = <<Called("extract_audio")>>]
             /\ UNCHANGED response
        ELSE /\ response' = [response EXCEPT ![i] =
                                [status |-> 500, origin |-> "upload", path |-> ""]]
             /\ pc' = [pc EXCEPT ![i] = "done"]
             /\ UNCHANGED <<file_path, trace>>
    /\ UNCHANGED <<audio_path, transcript, detailed_info, body, call, recognition,
                   audio_files, document>>
    /\ UNCHANGED summarizer_vars

\* extract_audio ends after the transcoder ended as `ran`; process_video goes on
\* to speech_to_text, or to its handler.
ExtractAudioEnds(i, ran) ==
    LET ended == extract_audio(file_path[i], ran)
    IN  /\ call' = [call EXCEPT ![i] = ran]
        /\ audio_files' =
               IF ran.kind = "return" /\ ran.value = 0
               THEN audio_files \cup {wav_path(file_path[i])}
               ELSE audio_files
        /\ IF ended.kind = "return"
           THEN /\ audio_path' = [audio_path EXCEPT ![i] = ended.value]
                /\ pc' = [pc EXCEPT ![i] = "speech_to_text"]
                /\ trace' = [trace EXCEPT ![i] =
                                @ \o <<Returned("extract_audio"),
                                       Called("speech_to_text")>>]
                /\ UNCHANGED <<detailed_info, response>>
           ELSE /\ AfterProcessVideo(i, process_video(Raise(ended.exc)),
                                     <<Raised("extract_audio", ended.exc)>>)
                /\ UNCHANGED audio_path

\* A variant that calls extract_audio a second time when the first call raised.
ExtractAudioRetry(i) ==
    /\ pc[i] = "extract_audio"
    /\ \E ran \in SubprocessCalls :
        IF ran.kind = "raise" /\ Len(trace[i]) = 1
        THEN /\ call' = [call EXCEPT ![i] = ran]
             /\ trace' = [trace EXCEPT ![i] =
                             @ \o <<Raised("extract_audio", ran.exc),
                                    Called("extract_audio")>>]
             /\ UNCHANGED <<pc, audio_path, detailed_info, response, audio_files>>
        ELSE ExtractAudioEnds(i, ran)
    /\ UNCHANGED <<file_path, transcript, body, recognition, document>>
    /\ UNCHANGED summarizer_vars

\* The transcoder ends and extract_audio with it.
ExtractAudio(i) ==
    /\ pc[i] = "extract_audio"
    /\ \E ran \in SubprocessCalls : ExtractAudioEnds(i, ran)
    /\ UNCHANGED <<file_path, transcript, body, recognition, document>>
    /\ UNCHANGED summarizer_vars

\* The recognition ends and speech_to_text with it.
SpeechToText(i) ==
    /\ pc[i] = "speech_to_text"
    /\ \E heard \in Recognitions(audio_path[i]) :
        LET ended == speech_to_text(audio_path[i], heard)
        IN  /\ recognition' = [recognition EXCEPT ![i] = heard]
            /\ IF ended.kind = "return"
               THEN /\ transcript' = [transcript EXCEPT ![i] = ended.value]
                    /\ pc' = [pc EXCEPT ![i] = "generate_detailed_info"]
                    /\ trace' = [trace EXCEPT ![i] =
                                    @ \o <<Returned("speech_to_text"),
                                           Called("generate_detailed_info")>>]
                    /\ UNCHANGED <<detailed_info, response>>
               ELSE /\ AfterProcessVideo(i, process_video(Raise(ended.exc)),
                                         <<Raised("speech_to_text", ended.exc)>>)
                    /\ UNCHANGED transcript
    /\ UNCHANGED <<file_path, audio_path, body, call, audio_files, document>>
    /\ UNCHANGED summarizer_vars

\* generate_detailed_info runs on the transcript and process_video returns.
GenerateDetailedInfo(i) ==
    /\ pc[i] = "generate_detailed_info"
    /\ LET ended == generate_detailed_info(PyStr(transcript[i]))
       IN  AfterProcessVideo(i, process_video(ended),
                             <<Ended("generate_detailed_info", ended)>>)
    /\ UNCHANGED <<file_path, audio_path, transcript, body, call, recognition,
                   audio_files, document>>
    /\ UNCHANGED summarizer_vars

\* generate_pdf builds the document and upload_video answers.
GeneratePdf(i) ==
    /\ pc[i] = "generate_pdf"
    /\ \E build \in Builds, truncated \in BOOLEAN :
        LET ended == generate_pdf(detailed_info[i], build)
            text  == paragraphs(detailed_info[i])
        IN  IF ended.kind = "return"
            THEN /\ ~truncated
                 /\ document' = [state |-> "complete", by |-> i,
                                 description |-> text.description,
                                 summary |-> text.summary]
                 /\ response' = [response EXCEPT ![i] =
                                    [status |-> 200, origin |-> "", path |-> ended.value]]
                 /\ pc' = [pc EXCEPT ![i] = "FileResponse"]
                 /\ trace' = [trace EXCEPT ![i] = @ \o <<Returned("generate_pdf")>>]
            ELSE /\ document' = IF truncated
                                THEN [state |-> "truncated", by |-> i,
                                      description |-> "", summary |-> ""]
                                ELSE document
                 /\ response' = [response EXCEPT ![i] =
                                    [status |-> 500, origin |-> "generate_pdf", path |-> ""]]
                 /\ pc' = [pc EXCEPT ![i] = "done"]
                 /\ trace' = [trace EXCEPT ![i] = @ \o <<Raised("generate_pdf", ended.exc)>>]
    /\ UNCHANGED <<file_path, audio_path, transcript, detailed_info, body, call,
                   recognition, audio_files>>
    /\ UNCHANGED summarizer_vars

\* FileResponse reads the file at the returned path and sends it.
SendFile(i) ==
    /\ pc[i] = "FileResponse"
    /\ body' = [body EXCEPT ![i] = document]
    /\ pc' = [pc EXCEPT ![i] = "done"]
    /\ UNCHANGED <<file_path, audio_path, transcript, detailed_info, response, trace,
                   call, recognition, audio_files, document>>
    /\ UNCHANGED summarizer_vars

Next ==
    \E i \in Invocations :
        \/ UploadVideo(i)
        \/ ExtractAudio(i)
        \/ SpeechToText(i)
        \/ GenerateDetailedInfo(i)
        \/ GeneratePdf(i)
        \/ SendFile(i)

Spec == Init /\ [][Next]_vars

(* ------------------------ the Summarizer on its own -------------------- *)

SummarizerInit ==
    /\ PipelineInit
    /\ s_pc = "ready"
    /\ s_transcript \in SummarizerInputs
    /\ s_result = Return(NoContent)

Summarize ==
    /\ s_pc = "ready"
    /\ s_result' = generate_detailed_info(s_transcript)
    /\ s_pc' = "returned"
    /\ UNCHANGED s_transcript
    /\ UNCHANGED pipeline_vars

SummarizerNext == Summarize

SummarizerSpec == SummarizerInit /\ [][SummarizerNext]_vars

(* ------------------------- properties: helpers ------------------------- *)

InTrace(i, e) == \E k \in 1..Len(trace[i]) : trace[i][k] = e

CalledIn(i, stage) == InTrace(i, Called(stage))

RaisedIn(i, stage) == \E k \in 1..Len(trace[i]) :
    trace[i][k][1] = "raise" /\ trace[i][k][2] = stage

EndedIn(i, stage) == InTrace(i, Returned(stage)) \/ RaisedIn(i, stage)

Stages == <<"extract_audio", "speech_to_text", "generate_detailed_info", "generate_pdf">>

Upstream == {"extract_audio", "speech_to_text", "generate_detailed_info"}

\* The stages called and not yet ended within the first n entries of trace[i].
ActiveAt(i, n) ==
    {st \in {Stages[k] : k \in 1..Len(Stages)} :
        /\ \E k \in 1..n : trace[i][k] = Called(st)
        /\ ~\E k \in 1..n : trace[i][k][1] \in {"return", "raise"} /\ trace[i][k][2] = st}

(* ------------------------------- C1 ----------------------------------- *)

\* C1: whatever AudioExtractor, Transcriber and Summarizer do, process_video does
\* not raise and generate_pdf is called next; a request that entered the pipeline
\* is answered with an error only when generate_pdf itself raised.
C1_PipelineAlwaysRenders ==
    \A i \in Invocations :
        /\ \A k \in 1..Len(trace[i]) :
              (\/ trace[i][k][1] = "raise" /\ trace[i][k][2] \in Upstream
               \/ trace[i][k] = Returned("generate_detailed_info"))
              => /\ k < Len(trace[i])
                 /\ trace[i][k + 1] = Called("generate_pdf")
        /\ (trace[i] # <<>> /\ pc[i] \in {"FileResponse", "done"})
              => CalledIn(i, "generate_pdf")
        /\ (trace[i] # <<>> /\ response[i].status = 500)
              => /\ response[i].origin = "generate_pdf"
                 /\ RaisedIn(i, "generate_pdf")

\* A request whose transcoder could not be launched and one whose transcription
\* raised were both answered with the document.
C1_Witness ==
    \E i, j \in Invocations :
        /\ RaisedIn(i, "extract_audio") /\ response[i].status = 200
        /\ RaisedIn(j, "speech_to_text") /\ response[j].status = 200

(* ------------------------------- C2 ----------------------------------- *)

\* C2: whenever generate_pdf is called, the summary it lays out is a non-empty
\* string.
C2_SummaryNeverEmpty ==
    \A i \in Invocations :
        pc[i] = "generate_pdf" => paragraphs(detailed_info[i]).summary # ""

(* ------------------------------- C3 ----------------------------------- *)

\* C3: when extract_audio or speech_to_text raises, generate_pdf is called with
\* description "Error processing video." and summary the text of that error, the
\* later upstream stages are not called, and the document a successful build
\* writes holds that content.
C3_DegradedReport ==
    \A i \in Invocations : \A k \in 1..Len(trace[i]) :
        (trace[i][k][1] = "raise" /\ trace[i][k][2] \in {"extract_audio", "speech_to_text"})
        => /\ CalledIn(i, "generate_pdf")
           /\ detailed_info[i] = [description |-> "Error processing video.",
                                  summary |-> trace[i][k][3]]
           /\ ~CalledIn(i, "generate_detailed_info")
           /\ (trace[i][k][2] = "extract_audio" => ~CalledIn(i, "speech_to_text"))
           /\ (document.by = i /\ document.state = "complete")
                 => /\ document.description = "Error processing video."
                    /\ document.summary = trace[i][k][3]

\* The transcoder could not be launched and the document delivered is the
\* degraded report.
C3_Witness ==
    \E i \in Invocations :
        /\ call[i].kind = "raise"
        /\ RaisedIn(i, "extract_audio")
        /\ pc[i] = "done" /\ response[i].status = 200
        /\ body[i].by = i /\ body[i].state = "complete"
        /\ body[i].description = "Error processing video."
        /\ body[i].summary = "[Errno 2] No such file or directory: 'ffmpeg'"

(* ------------------------------- C4 ----------------------------------- *)

\* C4: within one request the stages are called in the order extract_audio,
\* speech_to_text, generate_detailed_info, generate_pdf, each at most once, and
\* never while another stage of the same request is still running.
C4_StrictSequence ==
    \A i \in Invocations :
        /\ \A k, l \in 1..Len(trace[i]) :
              (k < l /\ trace[i][k][1] = "call" /\ trace[i][l][1] = "call")
              => \E a, b \in 1..Len(Stages) :
                    /\ a < b
                    /\ trace[i][k][2] = Stages[a]
                    /\ trace[i][l][2] = Stages[b]
        /\ \A n \in 0..Len(trace[i]) : Cardinality(ActiveAt(i, n)) <= 1
        /\ \A n \in 1..Len(trace[i]) :
              trace[i][n][1] = "call" => ActiveAt(i, n - 1) = {}
        /\ \A n \in 1..Len(trace[i]) :
              trace[i][n][1] \in {"return", "raise"}
              => ActiveAt(i, n - 1) = {trace[i][n][2]}

\* A request ran all four stages while another skipped two of them.
C4_Witness ==
    \E i, j \in Invocations :
        /\ pc[i] = "done"
        /\ \A k \in 1..Len(Stages) : CalledIn(i, Stages[k]) /\ EndedIn(i, Stages[k])
        /\ pc[j] = "done" /\ RaisedIn(j, "extract_audio") /\ Len(trace[j]) = 4

(* ------------------------------- C5 ----------------------------------- *)

\* C5: speech_to_text returns the recognized text; on UnknownValueError it
\* returns "Speech Recognition could not understand audio."; on RequestError it
\* returns "Could not request results from Speech Recognition service; " followed
\* by the error text; any other exception leaves it and reaches process_video.
C5_TranscriberResults ==
    \A i \in Invocations :
        EndedIn(i, "speech_to_text") =>
            IF recognition[i].kind = "return"
            THEN /\ InTrace(i, Returned("speech_to_text"))
                 /\ transcript[i] = recognition[i].value
            ELSE IF recognition[i].exc.type = "UnknownValueError"
            THEN /\ InTrace(i, Returned("speech_to_text"))
                 /\ transcript[i] = "Speech Recognition could not understand audio."
            ELSE IF recognition[i].exc.type = "RequestError"
            THEN /\ InTrace(i, Returned("speech_to_text"))
                 /\ transcript[i] =
                       "Could not request results from Speech Recognition service; "
                       \o "recognition request failed: Bad Request"
                 /\ recognition[i].exc.msg = "recognition request failed: Bad Request"
            ELSE /\ InTrace(i, <<"raise", "speech_to_text", recognition[i].exc.msg>>)
                 /\ ~InTrace(i, Returned("speech_to_text"))
                 /\ detailed_info[i].description = "Error processing video."

\* One request met a RequestError, another a missing audio file.
C5_Witness ==
    \E i, j \in Invocations :
        /\ EndedIn(i, "speech_to_text")
        /\ recognition[i].kind = "raise" /\ recognition[i].exc.type = "RequestError"
        /\ EndedIn(j, "speech_to_text")
        /\ recognition[j].kind = "raise" /\ recognition[j].exc.type = "FileNotFoundError"

(* ------------------------------- C9 ----------------------------------- *)

\* b is the last component of path p.
IsLastComponent(b, p) ==
    \E n \in 0..Len(p) :
        /\ b = SubSeq(p, n + 1, Len(p))
        /\ \A k \in (n + 1)..Len(p) : Char(p, k) # "/"
        /\ n = 0 \/ Char(p, n) = "/"

\* C9: whenever the transcoder was launched, whatever its exit status and
\* whether or not the output file exists, extract_audio returns
\* processed/<basename>.wav and speech_to_text is called with it; only a failed
\* launch leaves extract_audio as an error.
C9_ExitStatusIgnored ==
    \A i \in Invocations :
        EndedIn(i, "extract_audio") =>
            IF call[i].kind = "return"
            THEN /\ InTrace(i, Returned("extract_audio"))
                 /\ CalledIn(i, "speech_to_text")
                 /\ \E n \in 0..Len(file_path[i]) :
                       LET b == SubSeq(file_path[i], n + 1, Len(file_path[i]))
                       IN  /\ IsLastComponent(b, file_path[i])
                           /\ audio_path[i] = "processed/" \o b \o ".wav"
            ELSE /\ InTrace(i, <<"raise", "extract_audio", call[i].exc.msg>>)
                 /\ ~CalledIn(i, "speech_to_text")

\* The transcoder exited non-zero, no audio file exists, and speech_to_text is
\* running on the path all the same.
C9_Witness ==
    \E i \in Invocations :
        /\ pc[i] = "speech_to_text"
        /\ call[i].kind = "return" /\ call[i].value # 0
        /\ audio_path[i] = "processed/a.mp4.wav"
        /\ audio_path[i] \notin audio_files

(* ------------------------------- C10 ---------------------------------- *)

\* C10: every request is answered with the one path processed/video_summary.pdf,
\* the file there holds what the latest successful build laid out, and requests
\* whose uploads share a last path component share the audio path.
C10_SharedOutputPaths ==
    /\ \A i \in Invocations :
          response[i].status = 200 =>
              /\ response[i].path = "processed/video_summary.pdf"
              /\ document.state # "absent"
    /\ document.state = "complete" =>
          /\ pc[document.by] \in {"FileResponse", "done"}
          /\ document.description = paragraphs(detailed_info[document.by]).description
          /\ document.summary = paragraphs(detailed_info[document.by]).summary
    /\ \A i, j \in Invocations :
          (/\ InTrace(i, Returned("extract_audio"))
           /\ InTrace(j, Returned("extract_audio"))
           /\ \E n \in 0..Len(file_path[i]) :
                 LET b == SubSeq(file_path[i], n + 1, Len(file_path[i]))
                 IN  IsLastComponent(b, file_path[i]) /\ IsLastComponent(b, file_path[j]))
          => audio_path[i] = audio_path[j]

\* Two requests with different uploads and different reports ran concurrently;
\* the file delivered to one of them is the report built for the other.
C10_Witness ==
    \E i, j \in Invocations :
        /\ i # j
        /\ file_path[i] # file_path[j] /\ audio_path[i] = audio_path[j]
        /\ audio_path[i] # ""
        /\ pc[i] = "done" /\ response[i].status = 200
        /\ response[j].status = 200 /\ response[j].path = response[i].path
        /\ body[i].state = "complete" /\ body[i].by = j
        /\ body[i].summary # paragraphs(detailed_info[i]).summary

(* ------------------- properties of the Summarizer ---------------------- *)

\* Letters a and b are the same up to case.
SameLetter(a, b) ==
    \/ a = b
    \/ \E k \in 1..Len(UpperLetters) :
          {a, b} = {Char(UpperLetters, k), Char(LowerLetters, k)}

\* key occurs in text when letter case is ignored.
OccursIgnoringCase(key, text) ==
    \E i \in 1..(Len(text) - Len(key) + 1) :
        \A j \in 1..Len(key) : SameLetter(Char(text, i + j - 1), Char(key, j))

\* The positions at which part starts in text.
Positions(part, text) ==
    {i \in 1..(Len(text) - Len(part) + 1) : SubSeq(text, i, i + Len(part) - 1) = part}

Preamble == "In summary, this video provides insights on the following key themes: "

Closing == "This highlights the importance of these issues and encourages further discussion."

SummarizedText == s_pc = "returned" /\ s_transcript.pytype = "str"

NoKeyword(text) ==
    \A k \in 1..Len(explanations) : ~OccursIgnoringCase(explanations[k].key, text)

(* ------------------------------- C6 ----------------------------------- *)

\* C6: the summary holds the explanation of a keyword exactly once when the
\* keyword occurs in the transcript in any letter case, and not at all otherwise;
\* the explanations stand between the preamble and the closing sentence in the
\* order conflict, environment, economy, separated by single spaces.
C6_ExplanationsByKeyword ==
    SummarizedText =>
        LET text    == s_transcript.v
            summary == s_result.value.summary
            hit(k)  == OccursIgnoringCase(explanations[k].key, text)
            at(k)   == Positions(explanations[k].text, summary)
        IN  /\ s_result.kind = "return"
            /\ \A k \in 1..Len(explanations) :
                  Cardinality(at(k)) = IF hit(k) THEN 1 ELSE 0
            /\ \A k, l \in 1..Len(explanations) :
                  (k < l /\ hit(k) /\ hit(l))
                  => \A a \in at(k), b \in at(l) : a < b
            /\ summary =
                  Preamble
                  \o Join(" ", (IF OccursIgnoringCase("conflict", text)
                                THEN <<explanations[1].text>> ELSE <<>>)
                               \o (IF OccursIgnoringCase("environment", text)
                                   THEN <<explanations[2].text>> ELSE <<>>)
                               \o (IF OccursIgnoringCase("economy", text)
                                   THEN <<explanations[3].text>> ELSE <<>>))
                  \o " " \o Closing

\* "Economy" and "CONFLICT" both occur, economy first and twice.
C6_Witness ==
    /\ SummarizedText
    /\ s_transcript.v = "EconomyCONFLICTeconomy"
    /\ Cardinality(Positions(explanations[1].text, s_result.value.summary)) = 1
    /\ Cardinality(Positions(explanations[3].text, s_result.value.summary)) = 1

(* ------------------------------- C7 ----------------------------------- *)

\* C7 as claimed: with no keyword in the transcript the summary is the preamble
\* immediately followed by the closing sentence.
C7_PreambleThenClosing ==
    (SummarizedText /\ NoKeyword(s_transcript.v))
    => s_result.value.summary = Preamble \o Closing

\* C7 as amended: with no keyword in the transcript the summary is the preamble,
\* one more space, and the closing sentence, so that two spaces separate the two.
C7_PreambleSpaceClosing ==
    (SummarizedText /\ NoKeyword(s_transcript.v))
    => /\ s_result.kind = "return"
       /\ s_result.value.summary = Preamble \o " " \o Closing

\* The unintelligible-audio sentinel was summarized.
C7_Witness ==
    /\ SummarizedText
    /\ s_transcript.v = "Speech Recognition could not understand audio."
    /\ NoKeyword(s_transcript.v)
    /\ s_result.value.description = "Speech Recognition could not understand audio.."

(* ------------------------------- C8 ----------------------------------- *)

\* C8: generate_detailed_info returns for every argument; for an argument that is
\* not text the result has description "Error generating detailed information."
\* and the error's text as summary.
C8_SummarizerNeverRaises ==
    s_pc = "returned" =>
        /\ s_result.kind = "return"
        /\ s_transcript.pytype # "str" =>
              /\ s_result.value.description = "Error generating detailed information."
              /\ s_result.value.summary =
                    IF s_transcript.pytype = "bytes"
                    THEN "a bytes-like object is required, not 'str'"
                    ELSE "'" \o s_transcript.pytype \o "' object has no attribute 'lower'"

\* None was summarized.
C8_Witness ==
    /\ s_pc = "returned"
    /\ s_transcript = PyNone
    /\ s_result.value.summary = "'NoneType' object has no attribute 'lower'"

====
